---- MODULE Spec2Model ----
(***************************************************************************)
(* The POST /chat relay handler of my-chatbot-backend, in its two          *)
(* versions: src/server.js ("strict") and src/unnamed/part_000 ("loose").  *)
(* A behaviour is one server process: the version and the environment      *)
(* variable OPENAI_API_KEY are fixed at start, requests arrive, each       *)
(* handler runs up to its next await, the upstream settles the awaited     *)
(* promises, and the handler's continuations run.                          *)
(***************************************************************************)
EXTENDS Integers, Sequences, FiniteSets, TLC

(* ------------------------------ bounds --------------------------------- *)
\* Number of POST /chat requests that may be in flight in one behaviour.
NReq == 2

Requests == 1..NReq

(* --------------------------- JSON / JS values --------------------------- *)
\* A JavaScript value is a record tagged by its type.
Undef == [t |-> "undefined"]
JNull == [t |-> "null"]
JBool(b) == [t |-> "bool", v |-> b]
JNum(n) == [t |-> "num", v |-> n]
JStr(s) == [t |-> "str", v |-> s]
JArr(a) == [t |-> "arr", v |-> a]
JObj(o) == [t |-> "obj", v |-> o]
EmptyObj == JObj(<<>>)

\* The marker JSON.parse's SyntaxError is modelled by.
SyntaxError == [t |-> "SyntaxError"]

\* The conversation of request r: one user message whose content names r.
Conv(r) == JArr(<<JObj([role |-> "user", content |-> JStr("q" \o ToString(r))])>>)

ConvText(r) == "{\"messages\":[{\"role\":\"user\",\"content\":\"q" \o ToString(r) \o "\"}]}"

\* Request bodies (the JSON text the client posts).
RejectableTexts ==
  { "{}", "{\"messages\":null}", "{\"messages\":\"\"}", "{\"messages\":0}",
    "{\"messages\":false}", "{\"messages\":\"hi\"}", "{\"messages\":{}}" }

EmptyConvText == "{\"messages\":[]}"

\* Upstream response bodies (the text the completion API answers with).
TwoChoicesText ==
  "{\"choices\":[{\"message\":{\"content\":\"hello\"}},{\"message\":{\"content\":\"other\"}}]}"

EmptyContentText == "{\"choices\":[{\"message\":{\"content\":\"\"}}]}"

NoContentTexts ==
  { "null", "{}", "{\"choices\":[]}", "{\"choices\":[{}]}",
    "{\"choices\":[{\"message\":{}}]}",
    "{\"choices\":[{\"message\":{\"content\":null}}]}" }

NotJsonText == "rate limited"

\* The completion a well-behaved upstream returns for the conversation of
\* request r.
EchoText(r) == "{\"choices\":[{\"message\":{\"content\":\"re q" \o ToString(r) \o "\"}}]}"

UpstreamTexts == NoContentTexts \cup {TwoChoicesText, EmptyContentText, NotJsonText}

ChoiceOf(c) == JObj([message |-> JObj([content |-> c])])

\* JSON.parse on the texts above (express.json() for request bodies,
\* resp.json() for upstream bodies).
ParseJSON(text) ==
  CASE text = "null" -> JNull
    [] text = "{}" -> EmptyObj
    [] text = "{\"messages\":null}" -> JObj([messages |-> JNull])
    [] text = "{\"messages\":\"\"}" -> JObj([messages |-> JStr("")])
    [] text = "{\"messages\":0}" -> JObj([messages |-> JNum(0)])
    [] text = "{\"messages\":false}" -> JObj([messages |-> JBool(FALSE)])
    [] text = "{\"messages\":\"hi\"}" -> JObj([messages |-> JStr("hi")])
    [] text = "{\"messages\":{}}" -> JObj([messages |-> EmptyObj])
    [] text = "{\"messages\":[]}" -> JObj([messages |-> JArr(<<>>)])
    [] text = "{\"choices\":[]}" -> JObj([choices |-> JArr(<<>>)])
    [] text = "{\"choices\":[{}]}" -> JObj([choices |-> JArr(<<EmptyObj>>)])
    [] text = "{\"choices\":[{\"message\":{}}]}" ->
         JObj([choices |-> JArr(<<JObj([message |-> EmptyObj])>>)])
    [] text = "{\"choices\":[{\"message\":{\"content\":null}}]}" ->
         JObj([choices |-> JArr(<<ChoiceOf(JNull)>>)])
    [] text = EmptyContentText -> JObj([choices |-> JArr(<<ChoiceOf(JStr(""))>>)])
    [] text = TwoChoicesText ->
         JObj([choices |-> JArr(<<ChoiceOf(JStr("hello")), ChoiceOf(JStr("other"))>>)])
    [] \E r \in Requests : text = ConvText(r) ->
         JObj([messages |-> Conv(CHOOSE r \in Requests : text = ConvText(r))])
    [] \E r \in Requests : text = EchoText(r) ->
         JObj([choices |-> JArr(<<ChoiceOf(JStr("re q" \o
                 ToString(CHOOSE r \in Requests : text = EchoText(r))))>>)])
    [] OTHER -> SyntaxError

\* ToBoolean: undefined, null, false, 0 and "" are falsy, all else truthy.
Truthy(v) ==
  CASE v.t \in {"undefined", "null"} -> FALSE
    [] v.t = "bool" -> v.v
    [] v.t = "num" -> v.v # 0
    [] v.t = "str" -> v.v # ""
    [] OTHER -> TRUE

IsArray(v) == v.t = "arr"

Nullish(v) == v.t \in {"undefined", "null"}

\* v.key for a v that is neither null nor undefined.
Member(v, key) ==
  IF v.t = "obj" /\ key \in DOMAIN v.v THEN v.v[key] ELSE Undef

\* v?.key
OptMember(v, key) == IF Nullish(v) THEN Undef ELSE Member(v, key)

\* v?.[0].  For a string v JavaScript yields its first character, whose
\* .message is undefined like that of undefined itself.
OptIndex0(v) ==
  CASE v.t = "arr" -> IF Len(v.v) > 0 THEN v.v[1] ELSE Undef
    [] v.t = "obj" -> Member(v, "0")
    [] OTHER -> Undef

(* ------------------------------ inputs --------------------------------- *)
\* Request 1 is posted every request body of the table; the requests in
\* flight beside it post their own conversation.
RequestTextsOf(r) ==
  IF r = 1 THEN RejectableTexts \cup {EmptyConvText, ConvText(r)} ELSE {ConvText(r)}

\* The upstream answers the call of request r with the completion of r's
\* conversation, and the call of request 1 with every body of the table
\* besides.
UpstreamTextsOf(r) ==
  IF r = 1 THEN UpstreamTexts \cup {EchoText(r)} ELSE {EchoText(r)}

\* The upstream answers the call of request 1 with a success or a non-success
\* status, the calls of the others with a success status.
StatusesOf(r) == IF r = 1 THEN {200, 429} ELSE {200}

\* process.env.OPENAI_API_KEY: unset, set to the empty string, or set.
ApiKeys == {Undef, JStr(""), JStr("sk-test")}

Variants == {"strict", "loose"}

NetworkErrors == {"request to https://api.openai.com/v1/chat/completions failed"}

BodyReadErrors == {"Premature close"}

InvalidJsonMessage == "invalid json response body"

NullChoicesMessage == "Cannot read properties of null (reading 'choices')"

(* ------------------------------- state --------------------------------- *)
VARIABLES
  variant,      \* which version of the handler the process runs
  apiKey,       \* process.env.OPENAI_API_KEY
  pc,           \* pc[r]: where the handler of request r stands
  body,         \* body[r]: req.body as parsed by express.json()
  calls,        \* calls[r]: the upstream calls issued for r, in order
  fetchResult,  \* fetchResult[r]: the promise returned by fetch()
  bodyResult,   \* bodyResult[r]: the promise of resp.text() / resp.json()
  responses     \* responses[r]: the responses sent on r's res, in order

vars == <<variant, apiKey, pc, body, calls, fetchResult, bodyResult, responses>>

NoFetch == [state |-> "none", status |-> 0, ok |-> FALSE, err |-> ""]

NoBody == [state |-> "none", mode |-> "", text |-> "", value |-> Undef, err |-> ""]

Init ==
  /\ variant \in Variants
  /\ apiKey \in ApiKeys
  /\ pc = [r \in Requests |-> "idle"]
  /\ body = [r \in Requests |-> Undef]
  /\ calls = [r \in Requests |-> <<>>]
  /\ fetchResult = [r \in Requests |-> NoFetch]
  /\ bodyResult = [r \in Requests |-> NoBody]
  /\ responses = [r \in Requests |-> <<>>]

(* --------------------------- handler pieces ---------------------------- *)
\* A handler that keeps the conversation in module scope: a request that
\* arrives while another is open forwards the other's messages.
MessagesLeak(r, b) ==
  IF \E s \in Requests \ {r} : pc[s] \notin {"idle", "done"}
  THEN Member(body[CHOOSE s \in Requests \ {r} : pc[s] \notin {"idle", "done"}], "messages")
  ELSE Member(b, "messages")

\* const { messages } = req.body
Messages(r, b) == Member(b, "messages")

\* A validation that tests `messages === null` only.
ValidMessagesNotNull(v, messages) == messages.t # "null"

\* A validation without Array.isArray in either version.
ValidMessagesTruthyOnly(v, messages) == Truthy(messages)

\* The validation of `messages`: the guard of the 400 branch, negated.
ValidMessages(v, messages) ==
  IF v = "strict" THEN Truthy(messages) /\ IsArray(messages) ELSE Truthy(messages)

\* The credential check: server.js tests !apiKey, part_000 has no test.
CredentialOk(v, key) == IF v = "strict" THEN Truthy(key) ELSE TRUE

MaxTokensStrict == 512

MaxTokensLoose == 300

\* The template literal `Bearer ${key}`.
Bearer(key) == "Bearer " \o (IF key.t = "undefined" THEN "undefined" ELSE key.v)

\* The request handed to fetch(); its body is the object JSON.stringify
\* serialises.
FetchCall(v, key, messages) ==
  [ url |-> "https://api.openai.com/v1/chat/completions",
    method |-> "POST",
    authorization |-> Bearer(key),
    body |-> [ model |-> "gpt-4o-mini",
               messages |-> messages,
               max_tokens |-> IF v = "strict" THEN MaxTokensStrict ELSE MaxTokensLoose ] ]

\* resp.ok of node-fetch.
Ok(status) == status >= 200 /\ status < 300

BadRequest == [status |-> 400, body |-> [error |-> "Messages array missing"]]

MissingKey == [status |-> 500, body |-> [error |-> "Missing OPENAI_API_KEY in environment"]]

UpstreamError(text) == [status |-> 502, body |-> [error |-> "OpenAI API error", details |-> text]]

\* A catch clause that hides the exception's message.
CatchResponseGeneric(msg) ==
  [status |-> 500, body |-> [error |-> "Server error", details |-> "Internal error"]]

\* The catch clause.
CatchResponse(msg) == [status |-> 500, body |-> [error |-> "Server error", details |-> msg]]

ReplyResponse(reply) == [status |-> 200, body |-> [reply |-> reply]]

\* An extraction that reads the last choice instead of the first.
FirstContentLast(choices) ==
  OptMember(OptMember(IF choices.t = "arr" /\ Len(choices.v) > 0
                      THEN choices.v[Len(choices.v)] ELSE Undef, "message"), "content")

\* data.choices?.[0]?.message?.content
FirstContent(choices) == OptMember(OptMember(OptIndex0(choices), "message"), "content")

\* The reply computed from the parsed upstream body, or the TypeError that
\* reading .choices of null throws (server.js reads data.choices, part_000
\* data?.choices; ?? replaces null and undefined, || every falsy value).
ExtractReply(v, data) ==
  IF v = "strict"
  THEN IF Nullish(data)
       THEN [threw |-> TRUE, value |-> Undef]
       ELSE LET c == FirstContent(Member(data, "choices"))
            IN [threw |-> FALSE,
                value |-> IF Nullish(c) THEN JStr("No reply generated") ELSE c]
  ELSE LET c == FirstContent(OptMember(data, "choices"))
       IN [threw |-> FALSE, value |-> IF Truthy(c) THEN c ELSE JStr("No reply")]

\* A handler that answers twice.
SendTwice(sent, resp) == Append(Append(sent, resp), resp)

\* res.status(..).json(..) on a response object.
Send(sent, resp) == Append(sent, resp)

Respond(r, resp) ==
  /\ responses' = [responses EXCEPT ![r] = Send(@, resp)]
  /\ pc' = [pc EXCEPT ![r] = "done"]

(* ------------------------------ actions -------------------------------- *)
\* A POST /chat arrives; the handler runs up to its first await.
HandleChat(r, text) ==
  /\ pc[r] = "idle"
  /\ LET b == ParseJSON(text)
         messages == Messages(r, b)
     IN /\ body' = [body EXCEPT ![r] = b]
        /\ IF ~ValidMessages(variant, messages)
           THEN /\ Respond(r, BadRequest)
                /\ UNCHANGED <<calls, fetchResult>>
           ELSE IF ~CredentialOk(variant, apiKey)
           THEN /\ Respond(r, MissingKey)
                /\ UNCHANGED <<calls, fetchResult>>
           ELSE /\ calls' = [calls EXCEPT ![r] = Append(@, FetchCall(variant, apiKey, messages))]
                /\ fetchResult' = [fetchResult EXCEPT ![r] = [NoFetch EXCEPT !.state = "pending"]]
                /\ pc' = [pc EXCEPT ![r] = "awaitFetch"]
                /\ UNCHANGED responses
  /\ UNCHANGED <<variant, apiKey, bodyResult>>

\* The upstream answers with a status line and headers: fetch() resolves.
FetchResolves(r, status) ==
  /\ pc[r] = "awaitFetch"
  /\ fetchResult' = [fetchResult EXCEPT ![r] =
       [state |-> "resolved", status |-> status, ok |-> Ok(status), err |-> ""]]
  /\ pc' = [pc EXCEPT ![r] = "fetchSettled"]
  /\ UNCHANGED <<variant, apiKey, body, calls, bodyResult, responses>>

\* The upstream cannot be reached: fetch() rejects.
FetchRejects(r, msg) ==
  /\ pc[r] = "awaitFetch"
  /\ fetchResult' = [fetchResult EXCEPT ![r] =
       [state |-> "rejected", status |-> 0, ok |-> FALSE, err |-> msg]]
  /\ pc' = [pc EXCEPT ![r] = "fetchSettled"]
  /\ UNCHANGED <<variant, apiKey, body, calls, bodyResult, responses>>

\* The handler resumes after `await fetch(..)`.
AfterFetch(r) ==
  /\ pc[r] = "fetchSettled"
  /\ IF fetchResult[r].state = "rejected"
     THEN /\ Respond(r, CatchResponse(fetchResult[r].err))
          /\ UNCHANGED bodyResult
     ELSE /\ bodyResult' = [bodyResult EXCEPT ![r] =
               [NoBody EXCEPT !.state = "pending",
                              !.mode = IF variant = "strict" /\ ~fetchResult[r].ok
                                       THEN "text" ELSE "json"]]
          /\ pc' = [pc EXCEPT ![r] = "awaitBody"]
          /\ UNCHANGED responses
  /\ UNCHANGED <<variant, apiKey, body, calls, fetchResult>>

\* The upstream body arrives: resp.text() resolves with it, resp.json()
\* resolves with its parse or rejects when it is not JSON.
BodyArrives(r, text) ==
  /\ pc[r] = "awaitBody"
  /\ LET data == ParseJSON(text)
         cur == bodyResult[r]
     IN bodyResult' = [bodyResult EXCEPT ![r] =
          IF cur.mode = "json" /\ data = SyntaxError
          THEN [cur EXCEPT !.state = "rejected", !.text = text, !.err = InvalidJsonMessage]
          ELSE [cur EXCEPT !.state = "resolved", !.text = text,
                           !.value = IF cur.mode = "json" THEN data ELSE JStr(text)]]
  /\ pc' = [pc EXCEPT ![r] = "bodySettled"]
  /\ UNCHANGED <<variant, apiKey, body, calls, fetchResult, responses>>

\* Reading the upstream body fails: resp.text() / resp.json() rejects.
BodyFails(r, msg) ==
  /\ pc[r] = "awaitBody"
  /\ bodyResult' = [bodyResult EXCEPT ![r] = [@ EXCEPT !.state = "rejected", !.err = msg]]
  /\ pc' = [pc EXCEPT ![r] = "bodySettled"]
  /\ UNCHANGED <<variant, apiKey, body, calls, fetchResult, responses>>

\* The handler resumes after `await resp.text()` / `await resp.json()`.
AfterBody(r) ==
  /\ pc[r] = "bodySettled"
  /\ LET res == bodyResult[r]
         ex == ExtractReply(variant, res.value)
     IN IF res.state = "rejected" THEN Respond(r, CatchResponse(res.err))
        ELSE IF res.mode = "text" THEN Respond(r, UpstreamError(res.value.v))
        ELSE IF ex.threw THEN Respond(r, CatchResponse(NullChoicesMessage))
        ELSE Respond(r, ReplyResponse(ex.value))
  /\ UNCHANGED <<variant, apiKey, body, calls, fetchResult, bodyResult>>

Next ==
  \/ \E r \in Requests : \E text \in RequestTextsOf(r) : HandleChat(r, text)
  \/ \E r \in Requests : \E status \in StatusesOf(r) : FetchResolves(r, status)
  \/ \E r \in Requests : \E msg \in NetworkErrors : FetchRejects(r, msg)
  \/ \E r \in Requests : AfterFetch(r)
  \/ \E r \in Requests : \E text \in UpstreamTextsOf(r) : BodyArrives(r, text)
  \/ \E r \in Requests : \E msg \in BodyReadErrors : BodyFails(r, msg)
  \/ \E r \in Requests : AfterBody(r)

Spec == Init /\ [][Next]_vars

\* A continuation of some handler whose awaited promise has settled.
Continue == \E r \in Requests : AfterFetch(r) \/ AfterBody(r)

\* The event loop keeps running the continuations of settled promises;
\* nothing obliges a client to post or the upstream to answer.
FairSpec == Spec /\ WF_vars(Continue)

(* ------------------------------ claims --------------------------------- *)
Arrived(r) == pc[r] # "idle"

Done(r) == pc[r] = "done"

\* The `messages` value request r posted (undefined when the field is absent).
Msgs(r) ==
  IF body[r].t = "obj" /\ "messages" \in DOMAIN body[r].v THEN body[r].v.messages ELSE Undef

KeySet == apiKey.t = "str" /\ apiKey.v # ""

\* The falsy values of JavaScript that a JSON body can carry, and undefined.
Falsy(m) ==
  \/ m.t \in {"undefined", "null"}
  \/ m.t = "bool" /\ m.v = FALSE
  \/ m.t = "num" /\ m.v = 0
  \/ m.t = "str" /\ m.v = ""

\* The upstream body of r's call has arrived in full.
BodyArrived(r) ==
  /\ bodyResult[r].state \in {"resolved", "rejected"}
  /\ bodyResult[r].err \notin BodyReadErrors

\* The upstream answered r's call with a success / a non-success status.
UpstreamSuccess(r) == fetchResult[r].state = "resolved" /\ fetchResult[r].status \in 200..299

UpstreamNonSuccess(r) == fetchResult[r].state = "resolved" /\ fetchResult[r].status \notin 200..299

\* d is a JSON object whose choices[0].message has a content field that is
\* not null.
HasFirstContent(d) ==
  /\ d.t = "obj" /\ "choices" \in DOMAIN d.v
  /\ d.v.choices.t = "arr" /\ Len(d.v.choices.v) > 0
  /\ LET ch == d.v.choices.v[1]
     IN /\ ch.t = "obj" /\ "message" \in DOMAIN ch.v
        /\ ch.v.message.t = "obj" /\ "content" \in DOMAIN ch.v.message.v
        /\ ch.v.message.v.content.t # "null"

TheFirstContent(d) == d.v.choices.v[1].v.message.v.content

\* The JSON value of the upstream body of r's call.
UpstreamData(r) == ParseJSON(bodyResult[r].text)

\* C1: a POST /chat whose body has no `messages` field is answered
\* 400 {error: "Messages array missing"} in both versions, and no upstream
\* call is issued for it, whether or not the credential is configured.
C1_MissingMessages ==
  \A r \in Requests :
    (Arrived(r) /\ "messages" \notin DOMAIN body[r].v) =>
      /\ responses[r] = <<[status |-> 400, body |-> [error |-> "Messages array missing"]]>>
      /\ calls[r] = <<>>
      /\ fetchResult[r].state = "none"

C1_Witness ==
  \E r \in Requests :
    /\ Arrived(r) /\ "messages" \notin DOMAIN body[r].v
    /\ KeySet /\ Len(responses[r]) = 1 /\ responses[r][1].status = 400

\* C2: a POST /chat that passes the `messages` validation while the
\* credential is not configured is answered 500 with an error naming the
\* missing credential, and no upstream call is issued for it.
C2_MissingCredential ==
  \A r \in Requests :
    (Arrived(r) /\ ~KeySet
       /\ (IF variant = "strict" THEN Msgs(r).t = "arr" ELSE ~Falsy(Msgs(r)))) =>
      /\ responses[r] =
           <<[status |-> 500, body |-> [error |-> "Missing OPENAI_API_KEY in environment"]]>>
      /\ calls[r] = <<>>

\* C3: when the upstream answers a forwarded request with a non-success
\* status and body text t, the caller gets 502 {error: "OpenAI API error",
\* details: t}; the body is not parsed as a completion and no 200 is sent.
C3_NonSuccess502 ==
  \A r \in Requests :
    /\ UpstreamNonSuccess(r) => bodyResult[r].mode # "json"
    /\ (UpstreamNonSuccess(r) /\ BodyArrived(r) /\ Done(r)) =>
         responses[r] = <<[status |-> 502,
                           body |-> [error |-> "OpenAI API error",
                                     details |-> bodyResult[r].text]]>>

\* The case C4 is about: array messages, credential configured, upstream
\* success with a JSON body whose first choice has a string content.
C4_Case(r) ==
  /\ Done(r) /\ Msgs(r).t = "arr" /\ KeySet
  /\ UpstreamSuccess(r) /\ BodyArrived(r)
  /\ HasFirstContent(UpstreamData(r))
  /\ TheFirstContent(UpstreamData(r)).t = "str"

\* C4 as stated: in that case the response is 200 {reply: c} for the content
\* c of choices[0], whatever string c is.
C4_ReplyIsFirstContent_Original ==
  \A r \in Requests :
    C4_Case(r) =>
      responses[r] = <<[status |-> 200, body |-> [reply |-> TheFirstContent(UpstreamData(r))]]>>

\* C4 amended: in that case the response is 200 {reply: c} for the content c
\* of choices[0] when c is any string in server.js and any non-empty string
\* in the other version, which answers 200 {reply: "No reply"} to an empty c.
C4_ReplyIsFirstContent ==
  \A r \in Requests :
    C4_Case(r) =>
      LET c == TheFirstContent(UpstreamData(r))
      IN responses[r] =
           <<[status |-> 200,
              body |-> [reply |-> IF variant = "loose" /\ c.v = "" THEN JStr("No reply") ELSE c]]>>

C4_Witness ==
  \E r \in Requests :
    /\ C4_Case(r) /\ bodyResult[r].text = TwoChoicesText
    /\ responses[r] = <<[status |-> 200, body |-> [reply |-> JStr("hello")]]>>

\* C5: when the upstream answers a forwarded request with success and a JSON
\* body from which no first-choice content can be extracted, the response is
\* 200 with the placeholder reply ("No reply generated" in server.js,
\* "No reply" in the other version), never an error.
C5_Placeholder ==
  \A r \in Requests :
    (Done(r) /\ UpstreamSuccess(r) /\ BodyArrived(r)
       /\ UpstreamData(r) # SyntaxError /\ ~HasFirstContent(UpstreamData(r))) =>
      responses[r] =
        <<[status |-> 200,
           body |-> [reply |-> JStr(IF variant = "strict"
                                    THEN "No reply generated" ELSE "No reply")]]>>

\* Everything the handler of request r can read or write about r.
ReqState(r) == <<pc[r], body[r], calls[r], fetchResult[r], bodyResult[r], responses[r]>>

C6_OwnConversation ==
  \A r \in Requests :
    /\ \A i \in 1..Len(calls[r]) : calls[r][i].body.messages = Msgs(r)
    /\ \A i \in 1..Len(responses[r]) :
         "reply" \in DOMAIN responses[r][i].body =>
           /\ BodyArrived(r)
           /\ \A s \in Requests \ {r} :
                responses[r][i].body.reply # JStr("re q" \o ToString(s))
           /\ (HasFirstContent(UpstreamData(r)) /\ Truthy(TheFirstContent(UpstreamData(r)))) =>
                responses[r][i].body.reply = TheFirstContent(UpstreamData(r))

C6_StepTouchesOneRequest ==
  /\ variant' = variant
  /\ apiKey' = apiKey
  /\ \A r \in Requests :
       ReqState(r)' # ReqState(r) => \A s \in Requests \ {r} : ReqState(s)' = ReqState(s)

\* C6: under any interleaving of requests in flight together, the upstream
\* call issued for a request carries that request's own messages unmodified,
\* the reply a caller gets comes from the upstream response to its own call,
\* and a step of one request changes nothing of another request nor the
\* shared credential.
C6_NoCrossRequestLeak == []C6_OwnConversation /\ [][C6_StepTouchesOneRequest]_vars

C6_Witness ==
  \E r \in Requests : \E s \in Requests \ {r} :
    /\ Done(r) /\ responses[r] = <<[status |-> 200, body |-> [reply |-> JStr("re q" \o ToString(r))]]>>
    /\ pc[s] = "awaitBody" /\ Len(calls[s]) = 1
    /\ calls[s][1].body.messages # calls[r][1].body.messages

\* C7: every exception raised while handling a request (fetch rejected, the
\* upstream body unreadable or not JSON, a TypeError of the extraction) is
\* answered 500 {error: "Server error", details: <its message>}, and the
\* request is answered.
C7_ExceptionsCaught ==
  \A r \in Requests :
    Done(r) =>
      /\ Len(responses[r]) = 1
      /\ fetchResult[r].state = "rejected" =>
           responses[r][1] = [status |-> 500,
                              body |-> [error |-> "Server error", details |-> fetchResult[r].err]]
      /\ bodyResult[r].state = "rejected" =>
           responses[r][1] = [status |-> 500,
                              body |-> [error |-> "Server error", details |-> bodyResult[r].err]]
      /\ (variant = "strict" /\ bodyResult[r].state = "resolved"
            /\ bodyResult[r].mode = "json" /\ bodyResult[r].text = "null") =>
           responses[r][1] = [status |-> 500,
                              body |-> [error |-> "Server error", details |-> NullChoicesMessage]]

C7_Witness ==
  \E r \in Requests :
    /\ Done(r) /\ bodyResult[r].state = "rejected" /\ bodyResult[r].text = NotJsonText
    /\ responses[r][1].status = 500

\* C8: at most one upstream call per request over its lifetime: exactly one
\* when the request passes the validation and the credential is configured,
\* none otherwise; an upstream failure (non-success status or exception) is
\* followed by no further call and shows in the request's response.
C8_OneCallNoRetry ==
  \A r \in Requests :
    /\ Len(calls[r]) <= 1
    /\ Arrived(r) =>
         (Len(calls[r]) = 1 <=>
            /\ KeySet
            /\ IF variant = "strict" THEN Msgs(r).t = "arr" ELSE ~Falsy(Msgs(r)))
    /\ (Done(r) /\ (fetchResult[r].state = "rejected" \/ UpstreamNonSuccess(r)
                      \/ bodyResult[r].state = "rejected")) =>
         /\ Len(responses[r]) = 1
         /\ responses[r][1].status >= 400

\* The requests the validation is to reject.
C9_Invalid(m) == IF variant = "strict" THEN Falsy(m) \/ m.t # "arr" ELSE Falsy(m)

C9_Rejected(r) ==
  /\ responses[r] = <<[status |-> 400, body |-> [error |-> "Messages array missing"]]>>
  /\ calls[r] = <<>>

C9_Forwarded(r) == Len(calls[r]) = 1 /\ calls[r][1].body.messages = JArr(<<>>)

\* C9 as stated: the validation rejects with 400 and no upstream call exactly
\* the requests whose messages is falsy or not an array (server.js) or falsy
\* (the other version), also when the credential is unset; an empty array is
\* accepted and forwarded upstream in both versions.
C9_Validation_Original ==
  \A r \in Requests :
    Arrived(r) =>
      /\ C9_Rejected(r) <=> C9_Invalid(Msgs(r))
      /\ Msgs(r) = JArr(<<>>) => C9_Forwarded(r)

\* C9 amended: as above, except that server.js forwards an empty array only
\* when the credential is configured (it answers 500 otherwise); the other
\* version forwards it always.
C9_Validation ==
  \A r \in Requests :
    Arrived(r) =>
      /\ C9_Rejected(r) <=> C9_Invalid(Msgs(r))
      /\ Msgs(r) = JArr(<<>>) =>
           /\ ~C9_Rejected(r)
           /\ (variant = "loose" \/ KeySet) <=> C9_Forwarded(r)

C9_Witness ==
  \E r \in Requests :
    /\ variant = "strict" /\ ~KeySet
    /\ Msgs(r) = JStr("hi") /\ C9_Rejected(r)

\* A response is never sent twice, and none is sent while an upstream promise
\* is pending.
C10_AtMostOne ==
  \A r \in Requests :
    /\ Len(responses[r]) <= 1
    /\ pc[r] \in {"awaitFetch", "awaitBody"} => responses[r] = <<>>

\* Nothing but the upstream ends an await: there is no timeout.
C10_OnlyUpstreamEndsAwait ==
  \A r \in Requests :
    /\ (pc[r] = "awaitFetch" /\ pc'[r] # "awaitFetch") =>
         fetchResult'[r].state \in {"resolved", "rejected"}
    /\ (pc[r] = "awaitBody" /\ pc'[r] # "awaitBody") =>
         bodyResult'[r].state \in {"resolved", "rejected"}

\* C10 as stated: at most one response per request, none while the upstream
\* call is pending, which only the upstream ends; and once fetch has settled
\* (a response with any status, or a failure) the request eventually has
\* exactly one response.
C10_Responses_Original ==
  /\ []C10_AtMostOne
  /\ [][C10_OnlyUpstreamEndsAwait]_vars
  /\ \A r \in Requests :
       (fetchResult[r].state \in {"resolved", "rejected"}) ~> (Len(responses[r]) = 1)

\* C10 amended: the same, the request being answered eventually once fetch
\* has failed or the upstream body has been read or has failed to be read
\* (after a status line the body may never come, and the request stays open).
C10_Responses ==
  /\ []C10_AtMostOne
  /\ [][C10_OnlyUpstreamEndsAwait]_vars
  /\ \A r \in Requests :
       (\/ fetchResult[r].state = "rejected"
        \/ bodyResult[r].state \in {"resolved", "rejected"}) ~> (Len(responses[r]) = 1)

C10_Witness ==
  \E r \in Requests :
    /\ Done(r) /\ fetchResult[r].state = "resolved" /\ bodyResult[r].state = "resolved"
    /\ Len(responses[r]) = 1

====
